---------------------------- MODULE Spec2Model ----------------------------
(***************************************************************************)
(* Model of summarize-commits: the CSV aggregation loop of the two         *)
(* producers (server.ts, scripts/generate-commits-data.js), the yearly     *)
(* report computed by ContributionGraph.tsx, and the calendar walk of      *)
(* generateWeeksForYear.                                                   *)
(*                                                                         *)
(* JavaScript strings are modelled as sequences of one-character strings,  *)
(* so that trim, split, parseInt, the filename regex and toISOString are   *)
(* computed character by character.                                        *)
(***************************************************************************)
EXTENDS Integers, Sequences, FiniteSets, TLC

(***************************************************************************)
(* Bounds of the model.                                                    *)
(***************************************************************************)
\* Largest number of CSV files in the commits directory.
MaxFiles == 2
\* Largest number of data rows over all files of the directory.
MaxTotalRows == 3
\* The calendar walk is checked for the years MinYear..MaxYear.
MinYear == 2017
MaxYear == 2030
\* Largest per-day count in the aggregates handed to the calendar walk.
MaxCount == 12

(***************************************************************************)
(* Strings.                                                                *)
(***************************************************************************)
\* The characters the model uses, in UTF-16 code unit order (the order of
\* Array.prototype.sort() without a comparator).
CodeOrder ==
  << "\t", " ", "+", "-", ".", "/",
     "0", "1", "2", "3", "4", "5", "6", "7", "8", "9", ":",
     "A", "B", "C", "D", "E", "F", "G", "H", "I", "J", "K", "L", "M",
     "N", "O", "P", "Q", "R", "S", "T", "U", "V", "W", "X", "Y", "Z", "_",
     "a", "b", "c", "d", "e", "f", "g", "h", "i", "j", "k", "l", "m",
     "n", "o", "p", "q", "r", "s", "t", "u", "v", "w", "x", "y", "z" >>

CharCode(c) == CHOOSE i \in 1..Len(CodeOrder) : CodeOrder[i] = c

SetMin(S) == CHOOSE x \in S : \A y \in S : x <= y
SetMax(S) == CHOOSE x \in S : \A y \in S : x >= y

\* a < b for two strings, as the default sort comparator orders them.
StrLess(a, b) ==
  LET n == IF Len(a) < Len(b) THEN Len(a) ELSE Len(b)
      diff == {i \in 1..n : a[i] # b[i]}
  IN  IF diff = {} THEN Len(a) < Len(b)
      ELSE CharCode(a[SetMin(diff)]) < CharCode(b[SetMin(diff)])

IsWhiteSpace(c) == c \in {" ", "\t"}

\* String.prototype.trim
Trim(s) ==
  LET keep == {i \in 1..Len(s) : ~IsWhiteSpace(s[i])}
  IN  IF keep = {} THEN <<>> ELSE SubSeq(s, SetMin(keep), SetMax(keep))

\* s.split(sep)[0] for a one-character separator
SplitFirst(s, sep) ==
  LET at == {i \in 1..Len(s) : s[i] = sep}
  IN  IF at = {} THEN s ELSE SubSeq(s, 1, SetMin(at) - 1)

Digits == <<"0", "1", "2", "3", "4", "5", "6", "7", "8", "9">>
IsDigit(c) == \E i \in 1..10 : Digits[i] = c
DigitVal(c) == (CHOOSE i \in 1..10 : Digits[i] = c) - 1

\* The value JavaScript's NaN is modelled by. parseInt is only applied to
\* date.split("-")[0], which holds no "-", so its numeric results are >= 0.
NaN == -1

RECURSIVE DigitsValue(_, _)
DigitsValue(s, acc) ==
  IF s = <<>> \/ ~IsDigit(Head(s)) THEN acc
  ELSE DigitsValue(Tail(s), 10 * acc + DigitVal(Head(s)))

\* parseInt(s): leading white space skipped, an optional "+", then the
\* longest run of decimal digits; NaN when there is none.
ParseInt(s) ==
  LET start == {i \in 1..Len(s) : ~IsWhiteSpace(s[i])}
      t == IF start = {} THEN <<>> ELSE SubSeq(s, SetMin(start), Len(s))
      u == IF t # <<>> /\ Head(t) = "+" THEN Tail(t) ELSE t
  IN  IF u = <<>> \/ ~IsDigit(Head(u)) THEN NaN ELSE DigitsValue(u, 0)

\* a === b on numbers: NaN is not equal to itself.
StrictEquals(a, b) == a # NaN /\ b # NaN /\ a = b

Lower == <<"a", "b", "c", "d", "e", "f", "g", "h", "i", "j", "k", "l", "m",
           "n", "o", "p", "q", "r", "s", "t", "u", "v", "w", "x", "y", "z">>
Upper == <<"A", "B", "C", "D", "E", "F", "G", "H", "I", "J", "K", "L", "M",
           "N", "O", "P", "Q", "R", "S", "T", "U", "V", "W", "X", "Y", "Z">>

\* String.prototype.toUpperCase
ToUpperCaseOmitted(s) == s
ToUpperCase(s) ==
  [i \in 1..Len(s) |->
     IF \E k \in 1..26 : Lower[k] = s[i]
     THEN Upper[CHOOSE k \in 1..26 : Lower[k] = s[i]]
     ELSE s[i]]

\* The positions at which needle occurs in s.
Occurrences(s, needle) ==
  {i \in 1..(Len(s) - Len(needle) + 1) :
     SubSeq(s, i, i + Len(needle) - 1) = needle}

EndsWith(s, suffix) ==
  Len(s) >= Len(suffix) /\ SubSeq(s, Len(s) - Len(suffix) + 1, Len(s)) = suffix

Includes(s, needle) == Occurrences(s, needle) # {}

\* s.replace(needle, "") with a string pattern: the first occurrence only.
RemoveFirst(s, needle) ==
  LET at == Occurrences(s, needle)
  IN  IF at = {} THEN s
      ELSE SubSeq(s, 1, SetMin(at) - 1)
           \o SubSeq(s, SetMin(at) + Len(needle), Len(s))

ReportPrefix ==
  << "c", "o", "n", "t", "r", "i", "b", "u", "t", "i", "o", "n", "s", "_",
     "r", "e", "p", "o", "r", "t", "_" >>
DotCsv == <<".", "c", "s", "v">>

\* filename.match(/contributions_report_([^.]+)\.csv/): the capture group
\* of the leftmost match, or <<>> when there is no match (the group itself
\* is never empty). [^.]+ is greedy and cannot cross a ".", so the token is
\* the run of non-dot characters after the prefix.
ReportToken(filename) ==
  LET TokenAt(i) ==
        LET from == i + Len(ReportPrefix)
            dots == {j \in from..Len(filename) : filename[j] = "."}
            stop == IF dots = {} THEN Len(filename) + 1 ELSE SetMin(dots)
        IN  IF stop > from /\ stop + 3 <= Len(filename)
                /\ SubSeq(filename, stop, stop + 3) = DotCsv
            THEN SubSeq(filename, from, stop - 1) ELSE <<>>
      hits == {i \in Occurrences(filename, ReportPrefix) : TokenAt(i) # <<>>}
  IN  IF hits = {} THEN <<>> ELSE TokenAt(SetMin(hits))

\* server.ts getProjectName
getProjectName(filename) ==
  IF ReportToken(filename) # <<>> THEN ToUpperCase(ReportToken(filename))
  ELSE filename

\* generate-commits-data.js extractProjectName
extractProjectName(filename) ==
  IF ReportToken(filename) # <<>> THEN ToUpperCase(ReportToken(filename))
  ELSE RemoveFirst(filename, DotCsv)


(***************************************************************************)
(* Calendar arithmetic of the JavaScript Date object. A Date at local      *)
(* midnight is modelled by its local calendar day [y, m, d], the month     *)
(* counted from 0 as getMonth() does.                                      *)
(***************************************************************************)
IsLeapYear(y) == ((y % 4) = 0 /\ (y % 100) # 0) \/ (y % 400) = 0

\* Days of month m (0-based) of year y.
DaysInMonth(y, m) ==
  IF m = 1 THEN (IF IsLeapYear(y) THEN 29 ELSE 28)
  ELSE IF m \in {3, 5, 8, 10} THEN 30 ELSE 31

\* new Date(y, m, d) for fields that may be out of range, as setDate
\* normalises them: days before the 1st borrow from the previous month, days
\* after the last carry into the next.
RECURSIVE MakeDate(_, _, _)
MakeDate(y, m, d) ==
  IF d < 1 THEN
    (IF m = 0 THEN MakeDate(y - 1, 11, d + 31)
     ELSE MakeDate(y, m - 1, d + DaysInMonth(y, m - 1)))
  ELSE IF d > DaysInMonth(y, m) THEN
    (IF m = 11 THEN MakeDate(y + 1, 0, d - 31)
     ELSE MakeDate(y, m + 1, d - DaysInMonth(y, m)))
  ELSE [y |-> y, m |-> m, d |-> d]

\* date.setDate(n)
SetDate(date, n) == MakeDate(date.y, date.m, n)

\* The number of the day in the proleptic Gregorian calendar, 0001-01-01
\* being day 1 (a Monday).
DayNumber(date) ==
  LET y1 == date.y - 1
      before == {k \in 0..11 : k < date.m}
      RECURSIVE SumMonths(_)
      SumMonths(S) ==
        IF S = {} THEN 0
        ELSE LET k == CHOOSE k \in S : TRUE
             IN  DaysInMonth(date.y, k) + SumMonths(S \ {k})
  IN  365 * y1 + (y1 \div 4) - (y1 \div 100) + (y1 \div 400)
      + SumMonths(before) + date.d

\* date.getDay(): 0 is Sunday, 1 is Monday, ..., 6 is Saturday.
GetDay(date) == DayNumber(date) % 7

Pad2(n) == <<Digits[((n \div 10) % 10) + 1], Digits[(n % 10) + 1]>>
Pad4(n) == Pad2(n \div 100) \o Pad2(n % 100)

\* YYYY-MM-DD of a calendar day (years 0..9999).
IsoText(date) == Pad4(date.y) \o <<"-">> \o Pad2(date.m + 1) \o <<"-">> \o Pad2(date.d)

\* formatDate(date) == date.toISOString().split("T")[0]: toISOString prints
\* the instant in UTC. The Date holds local midnight, which east of UTC
\* (offset > 0 minutes) is still the previous day in UTC.
formatDate(date, offsetMinutes) ==
  IF offsetMinutes > 0 THEN IsoText(SetDate(date, date.d - 1))
  ELSE IsoText(date)

\* The time value of new Date(text) for the texts of the model: a
\* YYYY-MM-DD text naming a real day gives that day's number (its UTC
\* midnight), any other text an Invalid Date, whose value is NaN.
DateValue(text) ==
  IF Len(text) = 10 /\ text[5] = "-" /\ text[8] = "-"
     /\ \A i \in {1, 2, 3, 4, 6, 7, 9, 10} : IsDigit(text[i])
  THEN LET y == DigitsValue(SubSeq(text, 1, 4), 0)
           m == DigitsValue(SubSeq(text, 6, 7), 0)
           d == DigitsValue(SubSeq(text, 9, 10), 0)
       IN  IF m \in 1..12 /\ d >= 1 /\ d <= DaysInMonth(y, m - 1)
           THEN DayNumber([y |-> y, m |-> m - 1, d |-> d]) ELSE NaN
  ELSE NaN

(***************************************************************************)
(* Array.prototype.sort with a comparator (a, b) => Key(b) - Key(a).       *)
(***************************************************************************)
IndexPermutations(n) == {p \in [1..n -> 1..n] : \A i, j \in 1..n : p[i] = p[j] => i = j}

\* The possible results of seq.sort((a, b) => key(b) - key(a)), key[i]
\* being the key of seq[i]. The sort is stable. A comparator result of NaN
\* counts as 0; with a NaN key and two other keys that differ the comparator
\* is not consistent and ECMAScript leaves the order to the implementation:
\* any permutation.
SortDescOutcomes(seq, key) ==
  LET n == Len(seq)
      keys == {key[i] : i \in 1..n}
      Sorted(p) == \A i, j \in 1..n :
                      i < j => \/ key[p[i]] > key[p[j]]
                               \/ (key[p[i]] = key[p[j]] /\ p[i] < p[j])
  IN  IF NaN \notin keys
      THEN {[i \in 1..n |-> seq[p[i]]] : p \in {q \in IndexPermutations(n) : Sorted(q)}}
      ELSE IF Cardinality(keys) <= 2 THEN {seq}
      ELSE {[i \in 1..n |-> seq[p[i]]] : p \in IndexPermutations(n)}

\* seq.sort(): ascending by code units (the elements are distinct strings).
SortStrings(seq) ==
  LET n == Len(seq)
      p == CHOOSE q \in IndexPermutations(n) :
             \A i, j \in 1..n : i < j => StrLess(seq[q[i]], seq[q[j]])
  IN  [i \in 1..n |-> seq[p[i]]]

(***************************************************************************)
(* The inputs: the commits directory.                                      *)
(***************************************************************************)
\* The texts that come from outside (file names, Date fields) are named by
\* TLA+ strings; Chars gives the characters of each.
AlphaCsv == "contributions_report_alpha.csv"
BetaCsv == "contributions_report_beta.csv"
NotesCsv == "notes.csv"
ReadmeMd == "README.md"
StreamCsv == "x:y.csv"

\* The names a CSV file of the directory may have.
CsvNames == {AlphaCsv, BetaCsv, NotesCsv}

\* The texts a row's Date field may hold: two days of 2024, a day of 2023
\* surrounded by white space, a text that is no date, and a blank field.
DateFields == {"2024-03-01", "2024-03-02", "  2023-12-31 ", "n/a", " "}

Chars(text) ==
  CASE text = AlphaCsv -> ReportPrefix \o <<"a", "l", "p", "h", "a">> \o DotCsv
    [] text = BetaCsv -> ReportPrefix \o <<"b", "e", "t", "a">> \o DotCsv
    [] text = NotesCsv -> <<"n", "o", "t", "e", "s">> \o DotCsv
    [] text = ReadmeMd -> <<"R", "E", "A", "D", "M", "E", ".", "m", "d">>
    [] text = StreamCsv -> <<"x", ":", "y">> \o DotCsv
    [] text = "2024-03-01" -> <<"2", "0", "2", "4", "-", "0", "3", "-", "0", "1">>
    [] text = "2024-03-02" -> <<"2", "0", "2", "4", "-", "0", "3", "-", "0", "2">>
    [] text = "  2023-12-31 " ->
         <<" ", " ", "2", "0", "2", "3", "-", "1", "2", "-", "3", "1", " ">>
    [] text = "n/a" -> <<"n", "/", "a">>
    [] text = " " -> <<" ">>

\* A file that csv-parse rejects (readFile or parse throws).
Malformed == [ok |-> FALSE, hasDate |-> FALSE, rows |-> <<>>]

\* The contents of a file of at most budget data rows: malformed, or a
\* header with a Date column and the rows' Date fields, or a header without
\* a Date column and rows of which no field is read (rows then holds the
\* text of some other column).
Contents(budget) ==
  {Malformed}
  \cup {[ok |-> TRUE, hasDate |-> TRUE, rows |-> r] :
          r \in UNION {[1..n -> DateFields] : n \in 0..budget}}
  \cup {[ok |-> TRUE, hasDate |-> FALSE, rows |-> [i \in 1..n |-> "n/a"]] :
          n \in 1..budget}

\* The directories of at most k files named from names, of at most budget
\* rows in all: sequences of [name, content] in the order readdir lists them.
RECURSIVE Directories(_, _, _)
Directories(names, k, budget) ==
  {<<>>} \cup
  (IF k = 0 THEN {}
   ELSE UNION {UNION {{<<[name |-> n, content |-> c]>> \o rest :
                         rest \in Directories(names \ {n}, k - 1,
                                              budget - Len(c.rows))} :
                      c \in Contents(budget)} :
               n \in names})

(***************************************************************************)
(* State.                                                                  *)
(***************************************************************************)
VARIABLES
  producer,          \* "server" (GET /api/commits) or "script" (the build)
  files,             \* readdir's listing of the commits directory
  fs,                \* the content of each CSV file of the directory
  pc,                \* the producer's and then the component's position
  csvFiles,          \* the listing after the .csv filter
  fileIdx,           \* the file the for loop is at
  records,           \* the parsed rows of that file
  recIdx,            \* the row the inner loop is at
  projectName,       \* the project name of that file
  contributionMap,   \* Map date -> {count, projects}, in insertion order
  result,            \* the artifact: the response body or commits-data.json
  years,             \* ContributionGraph: the years, as sorted
  yearlyStats,       \* ContributionGraph: the yearly summaries, as sorted
  totalContributions,\* ContributionGraph: stats.totalContributions
  year,              \* generateWeeksForYear: its year argument
  utcOffset,         \* the host's offset from UTC in minutes
  dateMap,           \* generateWeeksForYear: its dateMap argument
  date,              \* generateWeeksForYear: the Date being walked
  currentWeek,       \* generateWeeksForYear: the week being filled
  weeks,             \* generateWeeksForYear: the weeks emitted
  calPc,             \* generateWeeksForYear: its position
  origin,            \* App: what the site the page was loaded from serves
  appPc,             \* App: the position of loadCommitData
  loading,           \* App: the loading state, updates applied one by one
  error,             \* App: the error state, updates applied one by one
  contributionData,  \* App: the contributionData state, likewise
  requested,         \* App: the URLs fetched so far
  shown,             \* App: the state of the last render React committed
  handlers           \* server: the locals of each GET /api/commits in flight

aggVars == <<producer, files, fs, pc, csvFiles, fileIdx, records, recIdx,
             projectName, contributionMap, result, years, yearlyStats, totalContributions>>
calVars == <<year, utcOffset, dateMap, date, currentWeek, weeks, calPc>>
appVars == <<origin, appPc, loading, error, contributionData, requested, shown>>
reqVars == <<handlers>>
vars == <<aggVars, calVars, appVars, reqVars>>

(***************************************************************************)
(* The aggregation loop (server.ts 42-102, generate-commits-data.js 16-90).*)
(* A Map is a sequence of entries in insertion order, a Set a sequence     *)
(* without repetition in insertion order.                                  *)
(***************************************************************************)
\* files.filter((file) => file.endsWith(".csv") && !file.includes(":"))
CsvFilter(listing) ==
  SelectSeq(listing, LAMBDA f : /\ EndsWith(Chars(f), DotCsv)
                                /\ ~Includes(Chars(f), <<":">>))

\* parse(content, {columns: true, skip_empty_lines: true}): one record per
\* data row, keyed by the header's column names.
Parse(content) ==
  [i \in 1..Len(content.rows) |->
     [hasDate |-> content.hasDate, text |-> content.rows[i]]]

\* const projectName = getProjectName(file) (server.ts 59),
\* extractProjectName(file) (generate-commits-data.js 43)
ProjectName(who, file) ==
  IF who = "server" THEN getProjectName(Chars(file))
  ELSE extractProjectName(Chars(file))

\* record.Date?.trim(): undefined without a Date column; undefined and the
\* empty string are both falsy and are both modelled by <<>>. A record with
\* a Date column holds its Date field in text.
RowDateUntrimmed(record) == IF record.hasDate THEN Chars(record.text) ELSE <<>>
RowDate(record) == IF record.hasDate THEN Trim(Chars(record.text)) ELSE <<>>

\* set.add(x)
SetAdd(set, x) ==
  IF \E i \in 1..Len(set) : set[i] = x THEN set ELSE Append(set, x)

\* map.get(key) || {count: 0, projects: new Set()}
GetOrDefaultFresh(map, key) == [date |-> key, count |-> 0, projects |-> <<>>]
GetOrDefault(map, key) ==
  IF \E i \in 1..Len(map) : map[i].date = key
  THEN map[CHOOSE i \in 1..Len(map) : map[i].date = key]
  ELSE [date |-> key, count |-> 0, projects |-> <<>>]

\* map.set(entry.date, entry): an existing key keeps its place.
MapSet(map, entry) ==
  IF \E i \in 1..Len(map) : map[i].date = entry.date
  THEN [map EXCEPT ![CHOOSE i \in 1..Len(map) : map[i].date = entry.date] = entry]
  ELSE Append(map, entry)

\* current.count++ (current.count += 1); current.projects.add(projectName)
BumpLastProject(current, project) ==
  [current EXCEPT !.count = @ + 1, !.projects = <<project>>]
Bump(current, project) ==
  [current EXCEPT !.count = @ + 1, !.projects = SetAdd(@, project)]

\* The body of the inner loop for one record.
ProcessRow(map, record, project) ==
  IF RowDate(record) # <<>>
  THEN MapSet(map, Bump(GetOrDefault(map, RowDate(record)), project))
  ELSE map

\* The inner loop over the records of one file.
RECURSIVE FoldRows(_, _, _)
FoldRows(map, recs, project) ==
  IF recs = <<>> THEN map
  ELSE FoldRows(ProcessRow(map, Head(recs), project), Tail(recs), project)

\* server.ts 89-95: the entries in insertion order, each date's projects
\* sorted; the records are not sorted.
ServerResult(map) ==
  [i \in 1..Len(map) |-> [map[i] EXCEPT !.projects = SortStrings(@)]]

\* generate-commits-data.js 73-79: the entries sorted by
\* new Date(b.date) - new Date(a.date), each date's projects in insertion
\* order.
ScriptResults(map) ==
  SortDescOutcomes(map, [i \in 1..Len(map) |-> DateValue(map[i].date)])

ReadDir ==
  /\ pc = "readdir"
  /\ csvFiles' = CsvFilter(files)
  /\ IF producer = "script" /\ csvFiles' = <<>>
     THEN pc' = "render"
     ELSE pc' = "file"
  /\ result' = <<>>
  /\ contributionMap' = <<>>
  /\ fileIdx' = 1
  /\ UNCHANGED <<producer, files, fs, records, recIdx, projectName, years,
                 yearlyStats, totalContributions, calVars, appVars, reqVars>>

\* readFile and parse succeed.
OpenFile ==
  /\ pc = "file"
  /\ fileIdx <= Len(csvFiles)
  /\ fs[csvFiles[fileIdx]].ok
  /\ projectName' = ProjectName(producer, csvFiles[fileIdx])
  /\ records' = Parse(fs[csvFiles[fileIdx]])
  /\ recIdx' = 1
  /\ IF records' = <<>>
     THEN pc' = "file" /\ fileIdx' = fileIdx + 1
     ELSE pc' = "rows" /\ fileIdx' = fileIdx
  /\ UNCHANGED <<producer, files, fs, csvFiles, contributionMap, result,
                 years, yearlyStats, totalContributions, calVars, appVars, reqVars>>

\* readFile or parse throws: the catch logs and the loop goes on.
FileErrorAborts ==
  /\ pc = "file"
  /\ fileIdx <= Len(csvFiles)
  /\ ~fs[csvFiles[fileIdx]].ok
  /\ projectName' = ProjectName(producer, csvFiles[fileIdx])
  /\ pc' = "render"
  /\ UNCHANGED <<producer, files, fs, csvFiles, fileIdx, records, recIdx,
                 contributionMap, result, years, yearlyStats,
                 totalContributions, calVars, appVars, reqVars>>
FileError ==
  /\ pc = "file"
  /\ fileIdx <= Len(csvFiles)
  /\ ~fs[csvFiles[fileIdx]].ok
  /\ projectName' = ProjectName(producer, csvFiles[fileIdx])
  /\ fileIdx' = fileIdx + 1
  /\ UNCHANGED <<producer, files, fs, pc, csvFiles, records, recIdx,
                 contributionMap, result, years, yearlyStats,
                 totalContributions, calVars, appVars, reqVars>>

ProcessRecord ==
  /\ pc = "rows"
  /\ contributionMap' =
       ProcessRow(contributionMap, records[recIdx], projectName)
  /\ IF recIdx = Len(records)
     THEN pc' = "file" /\ fileIdx' = fileIdx + 1 /\ recIdx' = recIdx
     ELSE pc' = "rows" /\ fileIdx' = fileIdx /\ recIdx' = recIdx + 1
  /\ UNCHANGED <<producer, files, fs, csvFiles, records, projectName,
                 result, years, yearlyStats, totalContributions, calVars, appVars, reqVars>>

\* The loop is over: the Map becomes the artifact.
Emit ==
  /\ pc = "file"
  /\ fileIdx > Len(csvFiles)
  /\ IF producer = "server"
     THEN result' = ServerResult(contributionMap)
     ELSE result' \in ScriptResults(contributionMap)
  /\ pc' = "render"
  /\ UNCHANGED <<producer, files, fs, csvFiles, fileIdx, records, recIdx,
                 projectName, contributionMap, years, yearlyStats,
                 totalContributions, calVars, appVars, reqVars>>

(***************************************************************************)
(* ContributionGraph's useMemo (ContributionGraph.tsx 36-98).              *)
(***************************************************************************)
\* data.forEach((item) => dateMap.set(item.date, item))
RECURSIVE DateMapOf(_, _)
DateMapOf(data, map) ==
  IF data = <<>> THEN map ELSE DateMapOf(Tail(data), MapSet(map, Head(data)))

\* parseInt(date.split("-")[0])
YearOf(text) == ParseInt(SplitFirst(text, "-"))

\* allDates.forEach(... yearsSet.add(year)); a Set holds NaN once.
RECURSIVE YearsSet(_, _)
YearsSet(dates, set) ==
  IF dates = <<>> THEN set
  ELSE YearsSet(Tail(dates), SetAdd(set, YearOf(Head(dates))))

\* projectTotals.set(project, (projectTotals.get(project) || 0) + count)
\* for every project of the record.
RECURSIVE AddProjects(_, _, _)
AddProjects(totals, projects, count) ==
  IF projects = <<>> THEN totals
  ELSE LET p == Head(projects)
           at == {i \in 1..Len(totals) : totals[i].project = p}
           next == IF at = {}
                   THEN Append(totals, [project |-> p, total |-> count])
                   ELSE [totals EXCEPT ![SetMin(at)].total = @ + count]
       IN  AddProjects(next, Tail(projects), count)

\* Whether a date of allDates is counted for a year: dateYear === year.
InAnyYear(text, y) == TRUE
InYear(text, y) == StrictEquals(YearOf(text), y)

\* One step of allDates.forEach inside years.forEach.
AddDateSplit(acc, commitData) ==
  [acc EXCEPT !.total = @ + commitData.count,
              !.projectTotals = AddProjects(@, commitData.projects,
                                            commitData.count \div Len(commitData.projects))]
AddDate(acc, commitData) ==
  [acc EXCEPT !.total = @ + commitData.count,
              !.projectTotals = AddProjects(@, commitData.projects,
                                            commitData.count)]

RECURSIVE YearStats(_, _, _)
YearStats(acc, dates, map) ==
  IF dates = <<>> THEN acc
  ELSE YearStats(IF InYear(Head(dates), acc.year)
                 THEN AddDate(acc, GetOrDefault(map, Head(dates)))
                 ELSE acc,
                 Tail(dates), map)

\* Array.from(dateMap.values()).reduce((a, b) => a + b.count, 0)
RECURSIVE SumCounts(_)
SumCounts(entries) ==
  IF entries = <<>> THEN 0 ELSE Head(entries).count + SumCounts(Tail(entries))

Render ==
  /\ pc = "render"
  /\ LET map == DateMapOf(result, <<>>)
         allDates == SortStrings([i \in 1..Len(map) |-> map[i].date])
         yearsSet == YearsSet(allDates, <<>>)
     IN  \E ys \in SortDescOutcomes(yearsSet, yearsSet) :
           LET yearlyStatsMap ==
                 [i \in 1..Len(ys) |->
                    YearStats([year |-> ys[i], projectTotals |-> <<>>,
                               total |-> 0], allDates, map)]
           IN  /\ years' = ys
               /\ yearlyStats' \in SortDescOutcomes(yearlyStatsMap, ys)
               /\ totalContributions' = SumCounts(map)
  /\ pc' = "done"
  /\ UNCHANGED <<producer, files, fs, csvFiles, fileIdx, records, recIdx,
                 projectName, contributionMap, result, calVars, appVars, reqVars>>

\* No request is in flight.
ReqIdle == handlers = <<>>

\* App is not mounted.
AppIdle ==
  /\ origin = [api |-> "ok", body |-> "json", payload |-> <<>>, static |-> FALSE]
  /\ appPc = "unmounted"
  /\ loading = TRUE
  /\ error = "null"
  /\ contributionData = <<>>
  /\ requested = <<>>
  /\ shown = [loading |-> TRUE, error |-> "null", contributionData |-> <<>>]

CalIdle ==
  /\ year = 0
  /\ utcOffset = 0
  /\ dateMap = <<>>
  /\ date = [y |-> 0, m |-> 0, d |-> 0]
  /\ currentWeek = <<>>
  /\ weeks = <<>>
  /\ calPc = "idle"

Init ==
  /\ producer \in {"server", "script"}
  /\ \E dir \in Directories(CsvNames, MaxFiles, MaxTotalRows) :
       /\ files = <<ReadmeMd>> \o [i \in 1..Len(dir) |-> dir[i].name]
                  \o <<StreamCsv>>
       /\ fs = [n \in {dir[i].name : i \in 1..Len(dir)} |->
                  (CHOOSE f \in {dir[i] : i \in 1..Len(dir)} : f.name = n).content]
  /\ pc = "readdir"
  /\ csvFiles = <<>>
  /\ fileIdx = 1
  /\ records = <<>>
  /\ recIdx = 1
  /\ projectName = <<>>
  /\ contributionMap = <<>>
  /\ result = <<>>
  /\ years = <<>>
  /\ yearlyStats = <<>>
  /\ totalContributions = 0
  /\ CalIdle
  /\ AppIdle
  /\ ReqIdle

Next == ReadDir \/ OpenFile \/ FileError \/ ProcessRecord \/ Emit \/ Render

Spec == Init /\ [][Next]_vars

(***************************************************************************)
(* generateWeeksForYear (ContributionGraph.tsx 452-493), one loop          *)
(* iteration per step.                                                     *)
(***************************************************************************)
\* The host offsets from UTC, in minutes: west of, at and east of Greenwich.
HostOffsets == {-300, 0, 120}

\* The project names of the two report files.
AlphaName == <<"A", "L", "P", "H", "A">>
BetaName == <<"B", "E", "T", "A">>

\* An aggregate with a record on each of the first MaxCount days of January
\* of year y, the k-th day with count k.
BusyJanuary(y) ==
  [k \in 1..MaxCount |->
     [date |-> IsoText(MakeDate(y, 0, k)), count |-> k,
      projects |-> IF k % 2 = 0 THEN <<AlphaName, BetaName>>
                   ELSE <<AlphaName>>]]

\* An aggregate with records at the edges of year y's grid.
YearEdges(y) ==
  << [date |-> IsoText(MakeDate(y, 0, 0)), count |-> 1,
      projects |-> <<AlphaName>>],
     [date |-> IsoText(MakeDate(y, 11, 31)), count |-> 3,
      projects |-> <<BetaName>>],
     [date |-> IsoText(MakeDate(y + 1, 0, 7)), count |-> 6,
      projects |-> <<AlphaName, BetaName>>] >>

\* const firstDay = new Date(year, 0, 1)
FirstDay(y) == MakeDate(y, 0, 1)

\* startDate.setDate(startDate.getDate() - firstDay.getDay() + 1)
StartDateSunday(y) == SetDate(FirstDay(y), FirstDay(y).d - GetDay(FirstDay(y)))
StartDate(y) == SetDate(FirstDay(y), FirstDay(y).d - GetDay(FirstDay(y)) + 1)

\* The while condition.
LoopConditionYearOnly(day, y) == day.y <= y
LoopCondition(day, y) ==
  day.y <= y \/ (day.y = y + 1 /\ day.m = 0 /\ day.d <= 7)

\* if (date.getFullYear() > year && date.getMonth() !== 0) break
BreakCondition(day, y) == day.y > y /\ day.m # 0

\* getContributionLevel
getContributionLevelStrict(count) ==
  IF count = 0 THEN "level-0"
  ELSE IF count < 2 THEN "level-1"
  ELSE IF count < 5 THEN "level-2"
  ELSE IF count < 10 THEN "level-3"
  ELSE "level-4"
getContributionLevel(count) ==
  IF count = 0 THEN "level-0"
  ELSE IF count <= 2 THEN "level-1"
  ELSE IF count <= 5 THEN "level-2"
  ELSE IF count <= 10 THEN "level-3"
  ELSE "level-4"

\* dateMap.get(dateStr), commitData?.count || 0, commitData?.projects || [],
\* and the cell pushed for the day.
DayCell(map, dateStr) ==
  LET commitData == GetOrDefault(map, dateStr)
  IN  [date |-> dateStr, count |-> commitData.count,
       level |-> getContributionLevel(commitData.count),
       projects |-> commitData.projects]

\* if (currentWeek.length === 7)
WeekFull(week) == Len(week) = 7

\* if (currentWeek.length > 0) weeks.push(currentWeek)
FinalWeeksAlways(ws, week) == Append(ws, week)
FinalWeeks(ws, week) == IF Len(week) > 0 THEN Append(ws, week) ELSE ws

CalStart ==
  /\ calPc = "start"
  /\ date' = StartDate(year)
  /\ currentWeek' = <<>>
  /\ weeks' = <<>>
  /\ calPc' = "loop"
  /\ UNCHANGED <<year, utcOffset, dateMap, aggVars, appVars, reqVars>>

WalkDay ==
  /\ calPc = "loop"
  /\ LoopCondition(date, year)
  /\ LET pushed == Append(currentWeek,
                          DayCell(dateMap, formatDate(date, utcOffset)))
     IN  IF WeekFull(pushed)
         THEN weeks' = Append(weeks, pushed) /\ currentWeek' = <<>>
         ELSE weeks' = weeks /\ currentWeek' = pushed
  /\ date' = SetDate(date, date.d + 1)
  /\ calPc' = IF BreakCondition(date', year) THEN "break" ELSE "loop"
  /\ UNCHANGED <<year, utcOffset, dateMap, aggVars, appVars, reqVars>>

CalFinish ==
  /\ calPc \in {"loop", "break"}
  /\ calPc = "loop" => ~LoopCondition(date, year)
  /\ weeks' = FinalWeeks(weeks, currentWeek)
  /\ calPc' = "done"
  /\ UNCHANGED <<year, utcOffset, dateMap, date, currentWeek, aggVars, appVars, reqVars>>

AggIdle ==
  /\ producer = "server"
  /\ files = <<>>
  /\ fs = <<>>
  /\ pc = "idle"
  /\ csvFiles = <<>>
  /\ fileIdx = 1
  /\ records = <<>>
  /\ recIdx = 1
  /\ projectName = <<>>
  /\ contributionMap = <<>>
  /\ result = <<>>
  /\ years = <<>>
  /\ yearlyStats = <<>>
  /\ totalContributions = 0

InitCal ==
  /\ year \in MinYear..MaxYear
  /\ utcOffset \in HostOffsets
  /\ dateMap \in {<<>>, BusyJanuary(year), YearEdges(year)}
  /\ date = FirstDay(year)
  /\ currentWeek = <<>>
  /\ weeks = <<>>
  /\ calPc = "start"
  /\ AggIdle
  /\ AppIdle
  /\ ReqIdle

NextCal == CalStart \/ WalkDay \/ CalFinish

SpecCal == InitCal /\ [][NextCal]_vars

\* generateWeeksForYear is synchronous code: once called it runs on, one
\* step after another, until it returns.
SpecCalLive == SpecCal /\ WF_vars(NextCal)

(***************************************************************************)
(* App (App.tsx 11-50): loadCommitData, one state update per step, and the *)
(* renders React commits. React 19 batches the updates of one synchronous  *)
(* continuation into one render, committed when the continuation ends.     *)
(***************************************************************************)
\* The lists a served artifact may hold: none, a few records, many.
Payloads == {<<>>, YearEdges(2024), BusyJanuary(2024)}

\* What the origin does with GET /api/commits: a 2xx response, another
\* status (404 on a static host, 500 from the server's catch), a rejected
\* fetch with an Error, a rejection that is no Error.
ApiOutcomes == {"ok", "notOk", "rejects", "rejectsNonError"}

\* The message setError is given in the catch block.
ErrorMessage(cause) ==
  CASE cause = "notOk" -> "Failed to load commit data"
    [] cause = "rejects" -> "Failed to fetch"
    [] cause = "invalid" -> "Unexpected token"
    [] OTHER -> "Unknown error"

\* A value of the error state is truthy.
Truthy(message) == message # "null" /\ message # ""

\* The elements the JSX of lines 44-46 renders for a state.
Rendered(st) ==
  {e \in {"loading", "error", "graph"} :
     \/ e = "loading" /\ st.loading
     \/ e = "error" /\ Truthy(st.error)
     \/ e = "graph" /\ ~st.loading /\ ~Truthy(st.error)}

\* The state the hooks hold, updates applied one by one.
HookState ==
  [loading |-> loading, error |-> error, contributionData |-> contributionData]

\* useEffect after the first render: setLoading(true).
SetLoadingTrue ==
  /\ appPc = "mount"
  /\ loading' = TRUE
  /\ appPc' = "fetch"
  /\ UNCHANGED <<origin, error, contributionData, requested, shown,
                 aggVars, calVars, reqVars>>

\* await fetch("/api/commits"): the continuation is suspended and React
\* renders what the updates so far amount to.
Fetch ==
  /\ appPc = "fetch"
  /\ requested' = Append(requested, "/api/commits")
  /\ shown' = HookState
  /\ appPc' = IF origin.api \in {"rejects", "rejectsNonError"}
              THEN "catch" ELSE "response"
  /\ UNCHANGED <<origin, loading, error, contributionData, aggVars, calVars, reqVars>>

\* if (!response.ok) throw ...; await response.json()
ReadResponse ==
  /\ appPc = "response"
  /\ appPc' = IF origin.api = "notOk" \/ origin.body = "invalid"
              THEN "catch" ELSE "setData"
  /\ shown' = HookState
  /\ UNCHANGED <<origin, loading, error, contributionData, requested,
                 aggVars, calVars, reqVars>>

\* setContributionData(data)
SetContributionData ==
  /\ appPc = "setData"
  /\ contributionData' = origin.payload
  /\ appPc' = "setErrorNull"
  /\ UNCHANGED <<origin, loading, error, requested, shown, aggVars, calVars, reqVars>>

\* setError(null)
SetErrorNull ==
  /\ appPc = "setErrorNull"
  /\ error' = "null"
  /\ appPc' = "finally"
  /\ UNCHANGED <<origin, loading, contributionData, requested, shown,
                 aggVars, calVars, reqVars>>

\* catch (err): setError(err instanceof Error ? err.message : "Unknown error")
SetError ==
  /\ appPc = "catch"
  /\ error' = ErrorMessage(IF origin.api = "ok" THEN origin.body
                           ELSE origin.api)
  /\ appPc' = "finally"
  /\ UNCHANGED <<origin, loading, contributionData, requested, shown,
                 aggVars, calVars, reqVars>>

\* finally: setLoading(false)
SetLoadingFalseOmitted ==
  /\ appPc = "finally"
  /\ appPc' = "commit"
  /\ UNCHANGED <<origin, loading, error, contributionData, requested, shown,
                 aggVars, calVars, reqVars>>
SetLoadingFalse ==
  /\ appPc = "finally"
  /\ loading' = FALSE
  /\ appPc' = "commit"
  /\ UNCHANGED <<origin, error, contributionData, requested, shown,
                 aggVars, calVars, reqVars>>

\* loadCommitData has returned: React renders the batched updates.
Commit ==
  /\ appPc = "commit"
  /\ shown' = HookState
  /\ appPc' = "idle"
  /\ UNCHANGED <<origin, loading, error, contributionData, requested,
                 aggVars, calVars, reqVars>>

InitApp ==
  /\ origin \in [api : ApiOutcomes, body : {"json", "invalid"},
                 payload : Payloads, static : BOOLEAN]
  /\ appPc = "mount"
  /\ loading = TRUE
  /\ error = "null"
  /\ contributionData = <<>>
  /\ requested = <<>>
  /\ shown = [loading |-> TRUE, error |-> "null", contributionData |-> <<>>]
  /\ AggIdle
  /\ CalIdle
  /\ ReqIdle

NextApp ==
  \/ SetLoadingTrue \/ Fetch \/ ReadResponse \/ SetContributionData
  \/ SetErrorNull \/ SetError \/ SetLoadingFalse \/ Commit

SpecApp == InitApp /\ [][NextApp]_vars

(***************************************************************************)
(* Concurrent GET /api/commits (server.ts 42-102). Each request runs the   *)
(* handler with locals of its own; the handlers interleave at their awaits *)
(* (readdir, readFile) and what lies between two awaits is one step.       *)
(***************************************************************************)
\* The requests in flight.
MaxRequests == 2
Requests == 1..MaxRequests

\* The contribution map a handler folds into: the Map it created itself.
HandlerMapShared(h) == handlers[1].contributionMap
HandlerMap(h) == handlers[h].contributionMap

\* What a handler does with the file its readFile was awaited for: the rows
\* are folded in, or the catch leaves the map alone.
AfterFile(h, file) ==
  IF fs[file].ok
  THEN FoldRows(HandlerMap(h), Parse(fs[file]), getProjectName(Chars(file)))
  ELSE HandlerMap(h)

\* await readdir returns: the filter, the new Map; with no CSV file the
\* loop is skipped and the response is sent, else the first readFile is
\* awaited.
HandlerReadDir(h) ==
  /\ handlers[h].pc = "readdir"
  /\ handlers' =
       [handlers EXCEPT ![h] =
          [pc |-> IF CsvFilter(files) = <<>> THEN "done" ELSE "file",
           csvFiles |-> CsvFilter(files), fileIdx |-> 1,
           contributionMap |-> <<>>, response |-> <<>>]]
  /\ UNCHANGED <<aggVars, calVars, appVars>>

\* await readFile returns or throws: the file is processed; after the last
\* file the response is sent, else the next readFile is awaited.
HandlerFile(h) ==
  /\ handlers[h].pc = "file"
  /\ LET st == handlers[h]
         map == AfterFile(h, st.csvFiles[st.fileIdx])
         last == st.fileIdx = Len(st.csvFiles)
     IN  handlers' =
           [handlers EXCEPT ![h] =
              [st EXCEPT !.contributionMap = map,
                         !.fileIdx = @ + 1,
                         !.pc = IF last THEN "done" ELSE "file",
                         !.response = IF last THEN ServerResult(map) ELSE @]]
  /\ UNCHANGED <<aggVars, calVars, appVars>>

InitConc ==
  /\ producer = "server"
  /\ \E dir \in Directories(CsvNames, MaxFiles, MaxTotalRows) :
       /\ files = <<ReadmeMd>> \o [i \in 1..Len(dir) |-> dir[i].name]
                  \o <<StreamCsv>>
       /\ fs = [n \in {dir[i].name : i \in 1..Len(dir)} |->
                  (CHOOSE f \in {dir[i] : i \in 1..Len(dir)} : f.name = n).content]
  /\ pc = "idle"
  /\ csvFiles = <<>>
  /\ fileIdx = 1
  /\ records = <<>>
  /\ recIdx = 1
  /\ projectName = <<>>
  /\ contributionMap = <<>>
  /\ result = <<>>
  /\ years = <<>>
  /\ yearlyStats = <<>>
  /\ totalContributions = 0
  /\ handlers = [h \in Requests |->
                   [pc |-> "readdir", csvFiles |-> <<>>, fileIdx |-> 1,
                    contributionMap |-> <<>>, response |-> <<>>]]
  /\ CalIdle
  /\ AppIdle

NextConc == \E h \in Requests : HandlerReadDir(h) \/ HandlerFile(h)

SpecConc == InitConc /\ [][NextConc]_vars

(***************************************************************************)
(* Properties of the calendar walk (under SpecCal).                        *)
(***************************************************************************)
\* Every cell emitted so far, in order.
RECURSIVE Flatten(_)
Flatten(ws) == IF ws = <<>> THEN <<>> ELSE Head(ws) \o Flatten(Tail(ws))
Cells == Flatten(weeks) \o (IF calPc = "done" THEN <<>> ELSE currentWeek)

\* The Monday on or before a day, by day numbers.
MondayOnOrBefore(day) == SetDate(day, day.d - ((GetDay(day) + 6) % 7))

\* The calendar days from the Monday on or before January 1 of y through
\* January 7 of y + 1.
GridDays(y) ==
  {MakeDate(y, 0, k) :
     k \in (1 - ((GetDay(FirstDay(y)) + 6) % 7))
           ..(DayNumber(MakeDate(y + 1, 0, 7)) - DayNumber(FirstDay(y)) + 1)}

\* C3 (as claimed): the walk starts at the Monday on or before January 1 of
\* the year, the finished grid holds every calendar date from that Monday
\* through January 7 of the next year, and the grid of 2023 starts on
\* 2022-12-26.
C3_StartsMondayOnOrBeforeJan1 ==
  /\ (calPc = "loop" /\ Cells = <<>>) =>
       /\ date = MondayOnOrBefore(FirstDay(year))
       /\ year = 2023 => date = [y |-> 2022, m |-> 11, d |-> 26]
  /\ calPc = "done" =>
       \A day \in GridDays(year) :
         \E i \in 1..Len(Cells) : Cells[i].date = IsoText(day)

\* The axis the component renders beside the grid (lines 281-287) and the
\* names of getDay()'s values.
WeekdayLabels == <<"Mon", "Tue", "Wed", "Thu", "Fri", "Sat", "Sun">>
DayNames == <<"Sun", "Mon", "Tue", "Wed", "Thu", "Fri", "Sat">>

\* C4: the first day walked is a Monday, and every day walked is pushed at
\* the position of its weekday on the Mon..Sun axis: whenever the loop is
\* about to push a day, the week being filled holds exactly the days of the
\* axis before that day's weekday.
C4_CellsOnMondayFirstAxis ==
  calPc = "loop" =>
    /\ Cells = <<>> => DayNames[GetDay(date) + 1] = "Mon"
    /\ Len(currentWeek) < 7
    /\ WeekdayLabels[Len(currentWeek) + 1] = DayNames[GetDay(date) + 1]

\* C4 witness: in the grid of 2023 (January 1 a Sunday) the walk is about to
\* push a Thursday into the fourth row of a later week.
C4_Witness ==
  /\ calPc = "loop" /\ year = 2023 /\ Len(weeks) >= 1
  /\ Len(currentWeek) = 3 /\ DayNames[GetDay(date) + 1] = "Thu"

\* C5, the states: no emitted week is empty, every emitted week but the
\* last has 7 cells, during the walk all have 7, the week being filled has
\* fewer than 7, and the last week of the finished grid has 1 to 7 cells.
C5_WeekLengths ==
  /\ \A i \in 1..Len(weeks) :
       /\ Len(weeks[i]) \in 1..7
       /\ (i < Len(weeks) \/ calPc # "done") => Len(weeks[i]) = 7
  /\ Len(currentWeek) < 7

\* C5, the steps: an iteration of the walk appends a week exactly when its
\* cell is the 7th of the week being filled, and the week appended is those
\* 7 cells; the end of the walk appends the cells left over, unpadded, when
\* there are any and nothing otherwise.
C5_FlushStep ==
  /\ (calPc = "loop" /\ calPc' = "loop") =>
       /\ (weeks' # weeks) <=> (Len(currentWeek) = 6)
       /\ weeks' # weeks =>
            /\ Len(weeks') = Len(weeks) + 1
            /\ SubSeq(weeks'[Len(weeks')], 1, 6) = currentWeek
            /\ currentWeek' = <<>>
       /\ weeks' = weeks => Len(currentWeek') = Len(currentWeek) + 1
  /\ calPc' = "done" =>
       weeks' = IF currentWeek = <<>> THEN weeks ELSE Append(weeks, currentWeek)

\* C5: every week of the output has exactly 7 cells except possibly the
\* last, which has 1 to 7 and is emitted as-is; a week is appended exactly
\* when 7 cells have accumulated; no empty week is emitted.
C5_WeeksOfSeven == []C5_WeekLengths /\ [][C5_FlushStep]_vars

\* C5 witness: a finished grid whose last week is partial, after full weeks.
C5_Witness ==
  /\ calPc = "done" /\ Len(weeks) > 50
  /\ Len(weeks[Len(weeks)]) \in 1..6

\* The level the documentation gives a count.
DocumentedLevel(count) ==
  CASE count = 0 -> "level-0"
    [] count \in 1..2 -> "level-1"
    [] count \in 3..5 -> "level-2"
    [] count \in 6..10 -> "level-3"
    [] OTHER -> "level-4"

LevelRank(level) ==
  CHOOSE k \in 0..4 :
    <<"level-0", "level-1", "level-2", "level-3", "level-4">>[k + 1] = level

\* C6: getContributionLevel maps 0 to level-0, 1..2 to level-1, 3..5 to
\* level-2, 6..10 to level-3 and 11 and above to level-4, never decreases as
\* count grows, and every cell of the grid carries the level of its own
\* count.
C6_LevelBuckets ==
  /\ \A c \in 0..MaxCount : getContributionLevel(c) = DocumentedLevel(c)
  /\ \A c \in 0..(MaxCount - 1) :
       LevelRank(getContributionLevel(c)) <= LevelRank(getContributionLevel(c + 1))
  /\ \A w \in 1..Len(weeks) : \A k \in 1..Len(weeks[w]) :
       weeks[w][k].level = DocumentedLevel(weeks[w][k].count)
  /\ \A k \in 1..Len(currentWeek) :
       currentWeek[k].level = DocumentedLevel(currentWeek[k].count)

\* C6 witness: a finished grid showing all five levels, for counts on both
\* sides of every boundary.
C6_Witness ==
  /\ calPc = "done"
  /\ \A c \in {0, 1, 2, 3, 5, 6, 10, 11} :
       \E i \in 1..Len(Cells) :
         Cells[i].count = c /\ Cells[i].level = DocumentedLevel(c)

(***************************************************************************)
(* Properties of the aggregation and of the yearly report (under Spec).    *)
(***************************************************************************)
\* The aggregation loop has processed every file.
LoopDone ==
  \/ pc \in {"render", "done"}
  \/ (pc = "file" /\ fileIdx > Len(csvFiles))

\* The rows of a file whose Date field is present and holds a character
\* that is not white space.
NonBlankRows(content) ==
  IF content.ok /\ content.hasDate
  THEN {i \in 1..Len(content.rows) :
          \E j \in 1..Len(Chars(content.rows[i])) :
            ~IsWhiteSpace(Chars(content.rows[i])[j])}
  ELSE {}

\* The number of such rows over the files of a sequence of names.
RECURSIVE CountNonBlank(_)
CountNonBlank(names) ==
  IF names = <<>> THEN 0
  ELSE Cardinality(NonBlankRows(fs[Head(names)])) + CountNonBlank(Tail(names))

\* C1: once the loop has processed all the files, the counts of the
\* contribution map add up to the number of rows, over the files that
\* parsed, whose Date field is present and not blank.
C1_CountsSumToNonBlankRows ==
  LoopDone => SumCounts(contributionMap) = CountNonBlank(csvFiles)

\* C1 witness: a finished run over two files in which two rows were counted
\* and a third, blank or without a Date column, was not.
C1_Witness ==
  /\ pc = "done" /\ Len(csvFiles) = 2
  /\ SumCounts(contributionMap) = 2
  /\ \E f \in DOMAIN fs :
       fs[f].ok /\ Len(fs[f].rows) > Cardinality(NonBlankRows(fs[f]))

\* A Map as a mapping: date -> (count, set of projects).
AsMapping(map) ==
  {[date |-> map[i].date, count |-> map[i].count,
    projects |-> {map[i].projects[k] : k \in 1..Len(map[i].projects)}] :
     i \in 1..Len(map)}

\* The aggregate of a sequence of files, read in that order.
RECURSIVE FoldFiles(_, _)
FoldFiles(map, names) ==
  IF names = <<>> THEN map
  ELSE FoldFiles(IF fs[Head(names)].ok
                 THEN FoldRows(map, Parse(fs[Head(names)]),
                               ProjectName(producer, Head(names)))
                 ELSE map,
                 Tail(names))

\* The CSV files of the directory in one fixed order.
FixedOrder ==
  SelectSeq(<<AlphaCsv, BetaCsv, NotesCsv>>, LAMBDA f : f \in DOMAIN fs)

\* C2: whatever the order in which the files were processed, the mapping
\* date -> (count, set of projects) is the one obtained by processing the
\* same files in one fixed order.
C2_OrderIndependent ==
  LoopDone => AsMapping(contributionMap) = AsMapping(FoldFiles(<<>>, FixedOrder))

\* C2 witness: two files processed in the order opposite to the fixed one,
\* both contributing to the same date.
C2_Witness ==
  /\ LoopDone /\ csvFiles = <<BetaCsv, AlphaCsv>>
  /\ \E i \in 1..Len(contributionMap) : Len(contributionMap[i].projects) = 2

RECURSIVE SumTotals(_)
SumTotals(stats) ==
  IF stats = <<>> THEN 0 ELSE Head(stats).total + SumTotals(Tail(stats))

\* C7 (as claimed): the totals of the yearly summaries add up to the sum of
\* the counts of the aggregate, which is the Total Contributions displayed.
C7_TotalsConserved ==
  pc = "done" =>
    /\ totalContributions = SumCounts(result)
    /\ SumTotals(yearlyStats) = SumCounts(result)

\* A record's date has the year prefix y: its text before the first "-" is
\* the four digits of y.
HasYear(entry, y) == y # NaN /\ SplitFirst(entry.date, "-") = Pad4(y)

\* The records of the aggregate in year y.
RecordsOf(y) == {i \in 1..Len(result) : HasYear(result[i], y)}

RECURSIVE SumCountsAt(_)
SumCountsAt(idx) ==
  IF idx = {} THEN 0
  ELSE LET i == CHOOSE i \in idx : TRUE
       IN  result[i].count + SumCountsAt(idx \ {i})

\* C8: every year that is the prefix of some date has a yearly summary, and
\* a year's total is the sum of the counts of exactly the records whose
\* date has that year prefix.
C8_YearTotals ==
  pc = "done" =>
    /\ \A i \in 1..Len(result) :
         LET prefix == SplitFirst(result[i].date, "-")
         IN  (Len(prefix) = 4 /\ \A j \in 1..4 : IsDigit(prefix[j])) =>
               \E k \in 1..Len(yearlyStats) : HasYear(result[i], yearlyStats[k].year)
    /\ \A k \in 1..Len(yearlyStats) :
         yearlyStats[k].year # NaN =>
           yearlyStats[k].total = SumCountsAt(RecordsOf(yearlyStats[k].year))

\* C8 witness: records of 2023 and of 2024, each year with its own total.
C8_Witness ==
  /\ pc = "done"
  /\ \E j, k \in 1..Len(yearlyStats) :
       /\ yearlyStats[j].year = 2023 /\ yearlyStats[j].total = 1
       /\ yearlyStats[k].year = 2024 /\ yearlyStats[k].total = 2

RECURSIVE SumProjectTotals(_)
SumProjectTotals(totals) ==
  IF totals = <<>> THEN 0
  ELSE Head(totals).total + SumProjectTotals(Tail(totals))

\* The projects named by the records of the aggregate.
AllProjects ==
  UNION {{result[i].projects[k] : k \in 1..Len(result[i].projects)} :
           i \in 1..Len(result)}

\* The records of year y to which project p contributed.
RecordsWith(y, p) ==
  {i \in RecordsOf(y) : \E k \in 1..Len(result[i].projects) :
                           result[i].projects[k] = p}

\* C9: in each yearly summary a project's total is the sum of the full
\* counts of the year's records that name the project (a project no record
\* of the year names has no entry), so the project totals add up to at
\* least the year's total, and to exactly the total when and only when
\* every record of the year names a single project.
C9_DoubleAttribution ==
  pc = "done" =>
    \A k \in 1..Len(yearlyStats) :
      LET st == yearlyStats[k]
      IN  /\ \A p \in AllProjects :
               IF RecordsWith(st.year, p) = {}
               THEN \A j \in 1..Len(st.projectTotals) :
                      st.projectTotals[j].project # p
               ELSE \E j \in 1..Len(st.projectTotals) :
                      /\ st.projectTotals[j].project = p
                      /\ st.projectTotals[j].total =
                           SumCountsAt(RecordsWith(st.year, p))
          /\ \A i, j \in 1..Len(st.projectTotals) :
               st.projectTotals[i].project = st.projectTotals[j].project => i = j
          /\ \A j \in 1..Len(st.projectTotals) :
               st.projectTotals[j].project \in AllProjects
          /\ SumProjectTotals(st.projectTotals) >= st.total
          /\ (SumProjectTotals(st.projectTotals) = st.total) <=>
               (\A i \in RecordsOf(st.year) : Len(result[i].projects) = 1)

\* C9 witness: a year whose project totals add up to more than its total.
C9_Witness ==
  /\ pc = "done"
  /\ \E k \in 1..Len(yearlyStats) :
       /\ yearlyStats[k].total = 3
       /\ SumProjectTotals(yearlyStats[k].projectTotals) = 5

\* The two files of the scenario.
Scenario ==
  /\ DOMAIN fs = {AlphaCsv, BetaCsv}
  /\ fs[AlphaCsv] = [ok |-> TRUE, hasDate |-> TRUE, rows |-> <<"2024-03-01">>]
  /\ fs[BetaCsv] = [ok |-> TRUE, hasDate |-> TRUE,
                    rows |-> <<"2024-03-01", "2024-03-02">>]

ScenarioAggregate ==
  /\ AsMapping(contributionMap) =
       {[date |-> Chars("2024-03-01"), count |-> 2,
         projects |-> {AlphaName, BetaName}],
        [date |-> Chars("2024-03-02"), count |-> 1, projects |-> {BetaName}]}
  /\ AsMapping(result) = AsMapping(contributionMap)
  /\ Len(yearlyStats) = 1
  /\ yearlyStats[1].year = 2024
  /\ yearlyStats[1].total = 3

ProjectTotalsOf(st) ==
  {<<st.projectTotals[j].project, st.projectTotals[j].total>> :
     j \in 1..Len(st.projectTotals)}

\* C10 (as claimed): in the scenario the aggregate is {2024-03-01: 2 of
\* {ALPHA, BETA}; 2024-03-02: 1 of {BETA}}, the 2024 summary has total 3
\* and project totals {ALPHA: 2, BETA: 1}.
C10_ScenarioAsClaimed ==
  (pc = "done" /\ Scenario) =>
    /\ ScenarioAggregate
    /\ ProjectTotalsOf(yearlyStats[1]) = {<<AlphaName, 2>>, <<BetaName, 1>>}

\* C10 (amended): in the scenario the aggregate is {2024-03-01: 2 of
\* {ALPHA, BETA}; 2024-03-02: 1 of {BETA}}, the 2024 summary has total 3
\* and project totals {ALPHA: 2, BETA: 3}: BETA is credited the full count
\* of both of its dates.
C10_Scenario ==
  (pc = "done" /\ Scenario) =>
    /\ ScenarioAggregate
    /\ ProjectTotalsOf(yearlyStats[1]) = {<<AlphaName, 2>>, <<BetaName, 3>>}

\* C10 witness: the scenario has run to its end, the files read beta first.
C10_Witness ==
  /\ pc = "done" /\ Scenario
  /\ csvFiles = <<BetaCsv, AlphaCsv>>

(***************************************************************************)
(* Properties of the artifact and of the failure handling (under Spec).    *)
(***************************************************************************)
\* The artifact has been produced.
Delivered == pc \in {"render", "done"}

\* A text that names a real calendar day as YYYY-MM-DD.
IsDateText(text) == DateValue(text) # NaN

\* C11 (as claimed): the artifact, of the script or of the server, holds
\* each date in at most one record and is sorted by date descending: of two
\* records whose dates name calendar days the earlier record has the later
\* day.
C11_ArtifactSortedDescending ==
  Delivered =>
    /\ \A i, j \in 1..Len(result) : i < j => result[i].date # result[j].date
    /\ \A i, j \in 1..Len(result) :
         (i < j /\ IsDateText(result[i].date) /\ IsDateText(result[j].date)) =>
           DateValue(result[i].date) > DateValue(result[j].date)

\* The files of a listing that can be read and parsed.
Readable(names) == SelectSeq(names, LAMBDA f : fs[f].ok)

\* The aggregate of a sequence of files none of which fails.
RECURSIVE FoldReadable(_, _)
FoldReadable(map, names) ==
  IF names = <<>> THEN map
  ELSE FoldReadable(FoldRows(map, Parse(fs[Head(names)]),
                             ProjectName(producer, Head(names))),
                    Tail(names))

\* C12, the states: when the loop is over the contribution map is the one
\* the loop builds from the non-failing files alone, and the artifact
\* delivered is made from that map.
C12_AggregateOfReadable ==
  /\ LoopDone =>
       contributionMap = FoldReadable(<<>>, Readable(csvFiles))
  /\ Delivered =>
       AsMapping(result) = AsMapping(FoldReadable(<<>>, Readable(csvFiles)))

\* C12, the steps: the step taken at a file that fails leaves the
\* contribution map as it was and moves on to the next file.
C12_FailureStep ==
  (pc = "file" /\ fileIdx <= Len(csvFiles) /\ ~fs[csvFiles[fileIdx]].ok) =>
    /\ contributionMap' = contributionMap
    /\ fileIdx' = fileIdx + 1
    /\ pc' = "file"

\* The steps the run has left at most before it delivers its artifact.
Remaining ==
  CASE pc = "readdir" -> (Len(files) + 1) * (MaxTotalRows + 2) + 2
    [] pc = "file" -> (Len(csvFiles) - fileIdx + 1) * (MaxTotalRows + 2) + 1
    [] pc = "rows" ->
         (Len(csvFiles) - fileIdx + 1) * (MaxTotalRows + 2) + 1 - recIdx
    [] OTHER -> 0

\* The run has a step to take: the listing is to be read, or the loop is at
\* a file of the directory or past the last one, or at a row of the file.
CanStep ==
  \/ pc = "readdir"
  \/ pc = "file" /\ fileIdx >= 1
       /\ (fileIdx <= Len(csvFiles) => csvFiles[fileIdx] \in DOMAIN fs)
  \/ pc = "rows" /\ recIdx \in 1..Len(records)

\* C12, the output: before the artifact is delivered the run always has a
\* step to take, and every step brings delivery nearer, a failed file
\* included, so the run gets to deliver.
C12_Progress ==
  ~Delivered => (Remaining' < Remaining /\ Remaining' >= 0)

\* C12: a file that fails to read or parse contributes no row and leaves
\* the contribution map untouched, the loop goes on with the remaining
\* files, the final aggregate is that of the non-failing files alone, and
\* the run delivers its artifact.
C12_FailureIsolation ==
  /\ [](C12_AggregateOfReadable /\ (~Delivered => CanStep))
  /\ [][C12_FailureStep /\ C12_Progress]_vars

\* C12 witness: a run whose first file failed and whose second file put a
\* row into the delivered artifact.
C12_Witness ==
  /\ pc = "done" /\ Len(csvFiles) = 2
  /\ ~fs[csvFiles[1]].ok
  /\ result # <<>>

\* The rule of the project name as documented: the token of a name
\* contributions_report_<token>.<ext>, upper-cased, and for any other name
\* the name without its extension (the text before its last ".").
DocumentedProjectName(filename) ==
  LET dots == {i \in 1..Len(filename) : filename[i] = "."}
      stem == IF dots = {} THEN filename
              ELSE SubSeq(filename, 1, SetMax(dots) - 1)
      n == Len(ReportPrefix)
  IN  IF Len(stem) > n /\ SubSeq(stem, 1, n) = ReportPrefix
         /\ \A i \in (n + 1)..Len(stem) : stem[i] # "."
      THEN ToUpperCase(SubSeq(stem, n + 1, Len(stem)))
      ELSE stem

\* C13 (as claimed): while the rows of a file are processed, the project
\* name in use, in the server as in the script, is the documented one: the
\* upper-cased token of a report file, the name without its extension for
\* any other file; so both producers give a file the same project name.
C13_ProjectNameRule ==
  pc = "rows" =>
    /\ projectName = DocumentedProjectName(Chars(csvFiles[fileIdx]))
    /\ getProjectName(Chars(csvFiles[fileIdx]))
         = extractProjectName(Chars(csvFiles[fileIdx]))

(***************************************************************************)
(* Properties of App (under SpecApp).                                      *)
(***************************************************************************)
\* The load fails: the API does not answer 2xx, or its body is no JSON.
LoadFails == origin.api # "ok" \/ origin.body = "invalid"

\* What a sequence of renders must show during the load, said of a state st
\* of the three hooks: exactly one of the three elements; loading while the
\* load is pending; once it is over the error after a failure and the graph
\* with the loaded list, empty or not, after a success.
ThreeStates(st) ==
  /\ Cardinality(Rendered(st)) = 1
  /\ appPc \in {"response", "catch", "setData"} => Rendered(st) = {"loading"}
  /\ appPc = "idle" =>
       IF LoadFails THEN Rendered(st) = {"error"}
       ELSE Rendered(st) = {"graph"} /\ st.contributionData = origin.payload

\* C14 (as claimed): with each state update applied as its own step, every
\* state of the hooks renders exactly one of the loading indicator, the
\* error message and the graph.
C14_ThreeStatesEveryUpdate == ThreeStates(HookState)

\* C14 (amended): every render React commits during the load sequence shows
\* exactly one of the loading indicator, the error message and the graph:
\* the loading indicator while the fetch is pending, the error after a
\* failed or non-OK fetch or a JSON parse failure, the graph after a
\* successful load, of an empty list included.
C14_ThreeStatesEveryRender == ThreeStates(shown)

\* C14 witness: a failed load whose catch has set the error while loading is
\* still set, the render on screen still showing the loading indicator only.
C14_Witness ==
  /\ appPc = "finally" /\ LoadFails
  /\ loading /\ Truthy(error)
  /\ Rendered(shown) = {"loading"}

\* C15 (as claimed): the app asks for the static commits-data.json first
\* and for /api/commits only after it, so that where the API is unavailable
\* and the static file exists the load ends showing the graph, not the
\* error.
C15_StaticFileFirst ==
  /\ requested # <<>> => requested[1] = "commits-data.json"
  /\ (appPc = "idle" /\ origin.static /\ origin.api # "ok") =>
       Rendered(shown) = {"graph"}

(***************************************************************************)
(* Properties of the presentation order and of the contribution map        *)
(* (under Spec).                                                           *)
(***************************************************************************)
\* a > b on numbers: false when either is NaN.
GreaterThan(a, b) == a # NaN /\ b # NaN /\ a > b

\* The year prefixes of the aggregate's dates: the text before the first
\* "-" of each.
YearPrefixes == {SplitFirst(result[i].date, "-") : i \in 1..Len(result)}

\* The projects of a yearly summary as the report lists them:
\* Array.from(projectTotals.entries()).sort((a, b) => b[1] - a[1])
ListedProjects(st) ==
  SortDescOutcomes(st.projectTotals,
                   [j \in 1..Len(st.projectTotals) |-> st.projectTotals[j].total])

\* C16 (as claimed): the years of the grids and the years of the summaries
\* are each strictly descending, there are as many years as the
\* aggregate's dates have distinct year prefixes, every year that is a
\* number being the one a prefix writes, and each summary lists its
\* projects by non-increasing total.
C16_PresentationOrder ==
  pc = "done" =>
    /\ \A i, j \in 1..Len(years) : i < j => GreaterThan(years[i], years[j])
    /\ \A i, j \in 1..Len(yearlyStats) :
         i < j => GreaterThan(yearlyStats[i].year, yearlyStats[j].year)
    /\ Len(years) = Cardinality(YearPrefixes)
    /\ Len(yearlyStats) = Cardinality(YearPrefixes)
    /\ \A i \in 1..Len(years) :
         /\ years[i] # NaN => Pad4(years[i]) \in YearPrefixes
         /\ yearlyStats[i].year = years[i]
    /\ \A k \in 1..Len(yearlyStats) :
         \A listed \in ListedProjects(yearlyStats[k]) :
           \A i, j \in 1..Len(listed) :
             i < j => listed[i].total >= listed[j].total

\* The projects of a Map entry, as a set.
ProjectSet(entry) == {entry.projects[k] : k \in 1..Len(entry.projects)}

\* C17, the states: every date of the contribution map has a count of at
\* least 1 and a project set that is not empty and no larger than the count,
\* and no date is held twice.
C17_EntriesWellFormed ==
  \A i \in 1..Len(contributionMap) :
    /\ contributionMap[i].count >= 1
    /\ ProjectSet(contributionMap[i]) # {}
    /\ Cardinality(ProjectSet(contributionMap[i])) <= contributionMap[i].count
    /\ Cardinality(ProjectSet(contributionMap[i]))
         = Len(contributionMap[i].projects)
    /\ \A j \in 1..Len(contributionMap) :
         contributionMap[j].date = contributionMap[i].date => j = i

\* C17, the steps: a step keeps every date of the map, with a count no
\* smaller and with every project it had; a row that is counted adds
\* exactly 1 to the count of exactly one date.
C17_EntriesGrow ==
  /\ \A i \in 1..Len(contributionMap) :
       \E j \in 1..Len(contributionMap') :
         /\ contributionMap'[j].date = contributionMap[i].date
         /\ contributionMap'[j].count >= contributionMap[i].count
         /\ ProjectSet(contributionMap[i]) \subseteq ProjectSet(contributionMap'[j])
  /\ SumCounts(contributionMap') \in
       {SumCounts(contributionMap), SumCounts(contributionMap) + 1}

\* C17: after every row-processing step every date of the contribution map
\* has count >= 1, a non-empty project set and no more projects than its
\* count; a count never decreases and a project is never removed.
C17_MapInvariant == []C17_EntriesWellFormed /\ [][C17_EntriesGrow]_vars

\* C17 witness: right after a row was processed, a date counted twice for
\* two projects beside a date counted once.
C17_Witness ==
  /\ pc = "file" /\ Len(contributionMap) = 2
  /\ contributionMap[1].count = 2 /\ Len(contributionMap[1].projects) = 2
  /\ contributionMap[2].count = 1

(***************************************************************************)
(* Properties of the walk's end and of the cells' dates (under SpecCal and *)
(* SpecCalLive).                                                           *)
(***************************************************************************)
\* The number of cells emitted so far.
CellCount ==
  IF calPc = "done" /\ weeks # <<>>
  THEN 7 * (Len(weeks) - 1) + Len(weeks[Len(weeks)])
  ELSE 7 * Len(weeks) + Len(currentWeek)

\* The last cell emitted.
LastCell ==
  IF calPc # "done" /\ currentWeek # <<>> THEN currentWeek[Len(currentWeek)]
  ELSE weeks[Len(weeks)][Len(weeks[Len(weeks)])]

\* January 7 of the year after y.
SpillEnd(y) == MakeDate(y + 1, 0, 7)

\* C18, the states: the cells emitted are as many as the days from the
\* start of the walk to the day the walk is at, which is never later than
\* the day after January 7 of the next year; the walk ends at that day, its
\* last cell being the cell of January 7, and no cell has a later date.
C18_WalkedDays ==
  calPc \in {"loop", "done"} =>
    /\ CellCount = DayNumber(date) - DayNumber(StartDate(year))
    /\ DayNumber(date) <= DayNumber(SpillEnd(year)) + 1
    /\ calPc = "done" =>
         /\ DayNumber(date) = DayNumber(SpillEnd(year)) + 1
         /\ LastCell.date = formatDate(SpillEnd(year), utcOffset)
         /\ \A i \in 1..Len(Cells) :
              DateValue(Cells[i].date) <= DayNumber(SpillEnd(year))

\* C18, the steps: an iteration emits the cell of the day the walk is at
\* and moves the walk to the next calendar day, so the days emitted are
\* consecutive, none skipped and none repeated.
C18_OneDayPerStep ==
  (calPc = "loop" /\ calPc' = "loop") =>
    /\ DayNumber(date') = DayNumber(date) + 1
    /\ CellCount' = CellCount + 1
    /\ (IF currentWeek' # <<>> THEN currentWeek'[Len(currentWeek')]
        ELSE weeks'[Len(weeks')][7]).date = formatDate(date, utcOffset)

\* C18: the walk terminates, the days it emits are consecutive calendar
\* days without gap or repetition, the last one is January 7 of the next
\* year, and the grid holds no later date.
C18_WalkTerminates ==
  /\ []C18_WalkedDays
  /\ [][C18_OneDayPerStep]_vars
  /\ <>(calPc = "done")

\* C18 witness: the finished grid of the leap year 2024, which starts on
\* Monday January 1: 366 days and the 7 days of the next January.
C18_Witness ==
  /\ calPc = "done" /\ year = 2024
  /\ Len(Cells) = 373
  /\ date = [y |-> 2025, m |-> 0, d |-> 8]

(***************************************************************************)
(* Properties of concurrent requests (under SpecConc).                     *)
(***************************************************************************)
\* The response of a request that runs alone over the directory.
AloneResponse == ServerResult(FoldFiles(<<>>, CsvFilter(files)))

\* C19, the states: the response of every request that has finished is the
\* response of the request run alone, and its counts add up to the number
\* of non-blank rows of the directory: none lost, none counted twice.
C19_ResponsesAsAlone ==
  \A h \in Requests :
    handlers[h].pc = "done" =>
      /\ handlers[h].response = AloneResponse
      /\ SumCounts(handlers[h].response) = CountNonBlank(CsvFilter(files))

\* C19, the steps: a step of one handler changes the map of that handler
\* only.
C19_OwnMapOnly ==
  \A h, g \in Requests :
    (handlers'[h].contributionMap # handlers[h].contributionMap /\ g # h) =>
      handlers'[g] = handlers[g]

\* C19: concurrent requests do not interfere: each handler folds its rows
\* into a map of its own, and for every interleaving of the handlers at
\* their awaits every response equals the response of the request run
\* alone, with no count lost or duplicated.
C19_NoInterference == []C19_ResponsesAsAlone /\ [][C19_OwnMapOnly]_vars

\* C19 witness: the second request has overtaken the first and answered
\* with counted rows while the first, one file into its loop, holds rows in
\* its own map.
C19_Witness ==
  /\ handlers[2].pc = "done" /\ handlers[2].response # <<>>
  /\ handlers[1].pc = "file" /\ handlers[1].fileIdx = 2
  /\ handlers[1].contributionMap # <<>>

\* The day before a day.
Yesterday(day) == SetDate(day, day.d - 1)

\* C20 (as claimed): whatever the host's offset from UTC, the cell emitted
\* for a day carries the YYYY-MM-DD of that host-local day, the day whose
\* weekday gives the cell its row, and the count and projects of the record
\* of that day.
C20_CellDateIsWalkedDay ==
  (calPc = "loop" /\ CellCount > 0) =>
    /\ LastCell.date = IsoText(Yesterday(date))
    /\ LastCell.count = GetOrDefault(dateMap, IsoText(Yesterday(date))).count
    /\ LastCell.projects
         = GetOrDefault(dateMap, IsoText(Yesterday(date))).projects

(***************************************************************************)
(* Determinism of the artifact (under Spec).                               *)
(***************************************************************************)
\* The artifacts the producer can emit when it reads the files of a
\* listing in that order.
ArtifactsOf(names) ==
  IF producer = "server" THEN {ServerResult(FoldFiles(<<>>, names))}
  ELSE ScriptResults(FoldFiles(<<>>, names))

\* C21 (as claimed): the artifact of a run is the artifact of the run of
\* the same producer that reads the same files in another order (here the
\* fixed order): the same records in the same order, each with its projects
\* in the same order.
C21_SameArtifactAnyOrder ==
  Delivered => \A other \in ArtifactsOf(FixedOrder) : result = other

=============================================================================
